---- MODULE Spec2Model ----
(***************************************************************************)
(* Model of the Gandi dynamic inventory script                             *)
(* (src/contrib/inventory/gandi.py): one run of GandiInventory.__init__,   *)
(* i.e. parse_cli_args, group_nodes (one step per node, one step per VLAN  *)
(* of the node) and the final print; and of the three resource modules     *)
(* gandi_vlan, gandi_iface and gandi_vps                                   *)
(* (src/lib/ansible/modules/cloud/gandi): invocations of main(), one step  *)
(* per call of the provider's driver.                                      *)
(***************************************************************************)
EXTENDS Integers, Sequences, FiniteSets, TLC

VARIABLES
    driver,      \* what the four list calls of the provider return
    argv,        \* the command line: [host, list]
    args,        \* self.args once parse_cli_args has run
    pc,          \* position in __init__ / group_nodes
    nodes, locations, ifaces, vlans,   \* locals of group_nodes
    i,           \* index of the node the for loop is at
    node_vlans,  \* local node_vlans of the current node
    j,           \* index in node_vlans the inner for loop is at
    groups,      \* local groups of group_nodes
    meta,        \* local meta of group_nodes
    inventory,   \* self.inventory
    output,      \* what print(data) wrote, NoOutput before
    error,       \* the exception that ended the run, NoError otherwise
    run,         \* number of the current invocation
    prev,        \* what the previous invocation ended with
    prov,        \* the provider's resources, as the resource modules see them
    proc         \* the invocations of a resource module, one per process

invVars == <<driver, argv, args, pc, nodes, locations, ifaces, vlans, i,
             node_vlans, j, groups, meta, inventory, output, error, run, prev>>

crudVars == <<prov, proc>>

vars == <<driver, argv, args, pc, nodes, locations, ifaces, vlans, i,
          node_vlans, j, groups, meta, inventory, output, error, run, prev,
          prov, proc>>

----------------------------------------------------------------------------
(* Bounds of the explored snapshots *)

MaxNodes == 2
MaxLocs == 2
MaxIfaces == 2
MaxVlans == 2
MaxRuns == 2
MaxNames == 2
MaxDestroys == 3

----------------------------------------------------------------------------
(* Python values *)

\* Python's None (a farm that is not set, an option that is not given)
None == "None"

NoOutput == [printed |-> FALSE]
NoError == "NoError"
NoArgs == [parsed |-> FALSE]

\* {} : the empty dict
EmptyDict == [k \in {} |-> None]

\* d[k] = v on a dict
Put(d, k, v) == [x \in (DOMAIN d) \cup {k} |-> IF x = k THEN v ELSE d[x]]

\* a Python list as a group value, and a {'hosts': .., 'vars': ..} dict
PyList(items) == [type |-> "list", items |-> items]
PyGroup(hosts, gvars) == [type |-> "dict", hosts |-> hosts, vars |-> gvars]

\* int(s) of a string of decimal digits, given as the sequence of its digits
RECURSIVE ParseInt(_)
ParseInt(s) ==
    IF s = <<>> THEN 0
    ELSE 10 * ParseInt(SubSeq(s, 1, Len(s) - 1)) + s[Len(s)]

\* the least member of a non-empty set of indices, 0 for the empty set:
\* next(generator) takes the first element that passes the generator's
\* condition and raises StopIteration when none does
FirstOf(indices) ==
    IF indices = {} THEN 0
    ELSE CHOOSE n \in indices : \A m \in indices : n <= m

----------------------------------------------------------------------------
(* Provider records, as the libcloud driver returns them *)

HostNames == <<"h1", "h2", "h3", "h4">>
Ip == "203.0.113.7"

\* Node: id is the string of a decimal number, extra carries farm and
\* datacenter_id
Node(n, farm, dc, ips) ==
    [id |-> <<n>>, name |-> HostNames[n], state |-> "running",
     public_ips |-> ips, private_ips |-> <<>>,
     extra |-> [farm |-> farm, datacenter_id |-> dc, ai_active |-> FALSE,
                description |-> "", memory |-> "256", cores |-> "1",
                ifaces |-> <<>>, disks |-> <<>>]]

\* NodeLocation: id is the string of a decimal number
CountryOf == [Paris |-> "FR", Bissen |-> "LU"]
Location(id, name) == [id |-> id, name |-> name, country |-> CountryOf[name]]

\* NetworkInterface: extra has the key 'vlan' only when the interface is
\* attached to a private VLAN
IfaceNoVlan(nid) == [node_id |-> nid, extra |-> [bandwidth |-> "102400"]]
IfaceOnVlan(nid, v) ==
    [node_id |-> nid, extra |-> [bandwidth |-> "102400", vlan |-> v]]

\* Vlan
Vlan(id, name) ==
    [id |-> id, name |-> name, subnet |-> "192.168.0.0/24",
     gateway |-> "192.168.0.254"]

----------------------------------------------------------------------------
(* The snapshots explored: three families, each varying one of the joins   *)
(* of group_nodes over all the values of its pools and holding the rest of *)
(* the snapshot to a base configuration.                                   *)

SeqsUpTo(S, n) == UNION {[1..k -> S] : k \in 0..n}

\* lists of nodes: list_nodes returns every node once
NodeLists(Pool) ==
    {s \in SeqsUpTo(Pool, MaxNodes) :
        \A a, b \in 1..Len(s) : a # b => s[a].id # s[b].id}

NodeIdx == 1..MaxNodes
IfaceNodeIds == {1, 2}
DcIds == {1, 12}
LocIds == {<<1>>, <<1, 2>>}
LocNames == {"Paris", "Bissen"}
VlanNames == {"web", "db"}
FarmLabels == {"f1", "Paris", "web", "_meta"}

BaseLocations == <<Location(<<1>>, "Paris")>>
\* the first k nodes, in the base configuration
BaseNodes(k) == [n \in 1..k |-> Node(n, None, 1, <<Ip>>)]
\* ex_list_vlans numbers the VLANs it returns
VlanList(names) == [n \in 1..Len(names) |-> Vlan(n, names[n])]

\* nodes against locations
DcSnapshots ==
    [nodes : NodeLists({Node(n, None, dc, <<Ip>>) : n \in NodeIdx, dc \in DcIds}),
     locations : SeqsUpTo({Location(id, nm) : id \in LocIds, nm \in LocNames},
                          MaxLocs),
     ifaces : {<<>>},
     vlans : {<<>>}]

\* interfaces against VLANs; the interfaces are those of nodes 1 and 2, so
\* with one node listed the interfaces of node 2 belong to no listed node
VlanSnapshots ==
    [nodes : {BaseNodes(k) : k \in 1..MaxNodes},
     locations : {BaseLocations},
     ifaces : SeqsUpTo({IfaceNoVlan(n) : n \in IfaceNodeIds}
                       \cup {IfaceOnVlan(n, v) :
                                 n \in IfaceNodeIds, v \in VlanNames},
                       MaxIfaces),
     vlans : {VlanList(names) : names \in SeqsUpTo(VlanNames, MaxVlans)}]

\* farm labels, nodes without a public address, names shared between a
\* farm, a datacenter and a VLAN
NameSnapshots ==
    [nodes : NodeLists({Node(n, farm, 1, ips) :
                           n \in NodeIdx, farm \in FarmLabels \cup {None},
                           ips \in {<<>>, <<Ip>>}}),
     locations : {BaseLocations},
     ifaces : {<<>>, <<IfaceOnVlan(1, "web")>>, <<IfaceOnVlan(1, "Paris")>>},
     vlans : {VlanList(<<"web", "Paris">>)}]

Snapshots == DcSnapshots \cup VlanSnapshots \cup NameSnapshots

\* command lines: --host NAME and/or --list, or neither
Argvs == [host : {None, HostNames[1]}, list : BOOLEAN]

----------------------------------------------------------------------------
(* Helpers of GandiInventory *)

\* loc_to_dict
loc_to_dict(location) ==
    [datacenter_id |-> location.id, country |-> location.country]

\* node_metadata_to_dict; node.public_ips[0] needs a public address
node_metadata_to_dict(node) ==
    [node_id |-> node.id,
     state |-> node.state,
     ansible_ssh_host |-> node.public_ips[1],
     ansible_ssh_user |-> "root",
     public_ips |-> node.public_ips,
     private_ips |-> node.private_ips,
     ai_active |-> node.extra.ai_active,
     datacenter_id |-> node.extra.datacenter_id,
     description |-> node.extra.description,
     farm |-> node.extra.farm,
     memory |-> node.extra.memory,
     ifaces |-> node.extra.ifaces,
     disks |-> node.extra.disks,
     cores |-> node.extra.cores]

\* vlan_to_dict
vlan_to_dict(vlan) ==
    [vlan_id |-> vlan.id, subnet |-> vlan.subnet, gateway |-> vlan.gateway]

\* the condition of the location generator: int(loc.id) == datacenter_id
LocationMatches(loc, node) == ParseInt(loc.id) = node.extra.datacenter_id

\* next(loc for loc in locations if ...): index of the location, 0 when the
\* generator is exhausted (StopIteration)
FindLocation(node, locs) ==
    FirstOf({n \in 1..Len(locs) : LocationMatches(locs[n], node)})

\* the condition of the node_vlans comprehension
IfaceOfNode(iface, node) ==
    ("vlan" \in DOMAIN iface.extra) /\ (ParseInt(node.id) = iface.node_id)

\* node_vlans that leaves out the VLAN names ex_list_vlans does not know
RECURSIVE NodeVlansKnown(_, _)
NodeVlansKnown(node, ifs) ==
    IF ifs = <<>> THEN <<>>
    ELSE LET rest == NodeVlansKnown(node, Tail(ifs))
         IN IF /\ IfaceOfNode(Head(ifs), node)
               /\ \E n \in 1..Len(driver.vlans) :
                      driver.vlans[n].name = Head(ifs).extra.vlan
            THEN <<Head(ifs).extra.vlan>> \o rest
            ELSE rest

\* [iface.extra['vlan'] for iface in ifaces if ...]
RECURSIVE NodeVlans(_, _)
NodeVlans(node, ifs) ==
    IF ifs = <<>> THEN <<>>
    ELSE LET rest == NodeVlans(node, Tail(ifs))
         IN IF IfaceOfNode(Head(ifs), node)
            THEN <<Head(ifs).extra.vlan>> \o rest
            ELSE rest

\* next(x for x in vlans if vlan == x.name): index, 0 on StopIteration
FindVlan(vlan, vls) == FirstOf({n \in 1..Len(vls) : vlan = vls[n].name})

\* groups kept from the call before instead of a new dict
StaleGroups == groups

\* groups = {} and meta = {'hostvars': {}}
InitialGroups == EmptyDict
InitialMeta == [type |-> "dict", hostvars |-> EmptyDict]

\* the name put in front of the hosts instead of at their end
PrependHost(g, key, name) ==
    Put(g, key, [g[key] EXCEPT !.hosts = <<name>> \o @])

\* groups[key]['hosts'].append(name)
AppendHost(g, key, name) ==
    Put(g, key, [g[key] EXCEPT !.hosts = Append(@, name)])

\* json.dumps writes the key None as null
JsonKey(k) == IF k = None THEN "null" ELSE k

\* json_format_dict on a dict
json_format_dict(data) ==
    [k \in {JsonKey(x) : x \in DOMAIN data} |->
        data[CHOOSE x \in DOMAIN data : JsonKey(x) = k]]

----------------------------------------------------------------------------
(* The run *)

NoPrev == [ended |-> "never"]

\* no resource module is invoked
CrudIdle ==
    /\ prov = [idle |-> TRUE]
    /\ proc = [idle |-> TRUE]

InitWith(snapshots) ==
    /\ CrudIdle
    /\ driver \in snapshots
    /\ argv \in Argvs
    /\ args = NoArgs
    /\ pc = "parse"
    /\ nodes = <<>> /\ locations = <<>> /\ ifaces = <<>> /\ vlans = <<>>
    /\ i = 0
    /\ node_vlans = <<>>
    /\ j = 0
    /\ groups = EmptyDict
    /\ meta = InitialMeta
    /\ inventory = EmptyDict
    /\ output = NoOutput
    /\ error = NoError
    /\ run = 1
    /\ prev = NoPrev

Init == InitWith(Snapshots)

\* an exception after which the groups built so far become the inventory
RaiseKeepingGroups(e) ==
    /\ pc' = "failed"
    /\ error' = e
    /\ inventory' = groups
    /\ UNCHANGED output

\* an exception nobody catches leaves __init__: nothing is assigned to
\* self.inventory and print(data) is not reached
Raise(e) ==
    /\ pc' = "failed"
    /\ error' = e
    /\ UNCHANGED <<inventory, output>>

\* self.parse_cli_args()
ParseCliArgs ==
    /\ pc = "parse"
    /\ args' = argv
    /\ pc' = "group_nodes"
    /\ UNCHANGED <<driver, argv, nodes, locations, ifaces, vlans, i, node_vlans,
                   j, groups, meta, inventory, output, error, run, prev>>
    /\ UNCHANGED crudVars

\* group_nodes up to the for loop: the two accumulators and the four lists
GroupNodesStart ==
    /\ pc = "group_nodes"
    /\ groups' = InitialGroups
    /\ meta' = InitialMeta
    /\ nodes' = driver.nodes
    /\ locations' = driver.locations
    /\ ifaces' = driver.ifaces
    /\ vlans' = driver.vlans
    /\ i' = 1
    /\ node_vlans' = <<>>
    /\ j' = 0
    /\ pc' = "node"
    /\ UNCHANGED <<driver, argv, args, inventory, output, error, run, prev>>
    /\ UNCHANGED crudVars

\* where the loop goes after the body of node i up to the VLAN loop: into
\* the VLAN loop when the node has VLANs, else to the next node
AfterNode(nv) ==
    IF nv = <<>>
    THEN /\ pc' = "node" /\ i' = i + 1 /\ j' = 0
    ELSE /\ pc' = "vlan" /\ i' = i /\ j' = 1

\* one iteration of the for loop over nodes, up to the loop over node_vlans
NodeStep ==
    /\ pc = "node"
    /\ i <= Len(nodes)
    /\ LET node == nodes[i]
           name == node.name
           farm == node.extra.farm
           li == FindLocation(node, locations)
           location == locations[li]
           nv == NodeVlans(node, ifaces)
           meta1 == [meta EXCEPT !.hostvars =
                        Put(@, name, node_metadata_to_dict(node))]
           groups1 == IF farm \in DOMAIN groups
                      THEN Put(groups, farm,
                               PyList(Append(groups[farm].items, name)))
                      ELSE Put(groups, farm, PyList(<<name>>))
           groups2 == IF location.name \notin DOMAIN groups1
                      THEN Put(groups1, location.name,
                               PyGroup(<<name>>, loc_to_dict(location)))
                      ELSE AppendHost(groups1, location.name, name)
       IN  IF li = 0
           THEN /\ Raise("StopIteration")
                /\ UNCHANGED <<groups, meta, node_vlans, i, j>>
           ELSE IF node.public_ips = <<>>
           THEN /\ Raise("IndexError")
                /\ node_vlans' = nv
                /\ UNCHANGED <<groups, meta, i, j>>
           ELSE IF farm \in DOMAIN groups /\ groups[farm].type # "list"
           THEN /\ Raise("AttributeError")
                /\ node_vlans' = nv
                /\ meta' = meta1
                /\ UNCHANGED <<groups, i, j>>
           ELSE IF /\ location.name \in DOMAIN groups1
                   /\ groups1[location.name].type = "list"
           THEN /\ Raise("TypeError")
                /\ node_vlans' = nv
                /\ meta' = meta1
                /\ groups' = groups1
                /\ UNCHANGED <<i, j>>
           ELSE /\ node_vlans' = nv
                /\ meta' = meta1
                /\ groups' = groups2
                /\ AfterNode(nv)
                /\ UNCHANGED <<inventory, output, error>>
    /\ UNCHANGED <<driver, argv, args, nodes, locations, ifaces, vlans,
                   run, prev>>
    /\ UNCHANGED crudVars

\* one iteration of the for loop over node_vlans
VlanStep ==
    /\ pc = "vlan"
    /\ j <= Len(node_vlans)
    /\ LET name == nodes[i].name
           vlan == node_vlans[j]
           vi == FindVlan(vlan, vlans)
           vlan_info == vlans[vi]
       IN  IF vi = 0
           THEN /\ Raise("StopIteration")
                /\ UNCHANGED <<groups, i, j>>
           ELSE IF vlan \notin DOMAIN groups
           THEN /\ groups' = Put(groups, vlan,
                                 PyGroup(<<name>>, vlan_to_dict(vlan_info)))
                /\ IF j = Len(node_vlans)
                   THEN /\ pc' = "node" /\ i' = i + 1 /\ j' = 0
                   ELSE /\ pc' = "vlan" /\ i' = i /\ j' = j + 1
                /\ UNCHANGED <<inventory, output, error>>
           ELSE IF groups[vlan].type = "list"
           THEN /\ Raise("TypeError")
                /\ UNCHANGED <<groups, i, j>>
           ELSE /\ groups' = AppendHost(groups, vlan, name)
                /\ IF j = Len(node_vlans)
                   THEN /\ pc' = "node" /\ i' = i + 1 /\ j' = 0
                   ELSE /\ pc' = "vlan" /\ i' = i /\ j' = j + 1
                /\ UNCHANGED <<inventory, output, error>>
    /\ UNCHANGED <<driver, argv, args, nodes, locations, ifaces, vlans,
                   node_vlans, meta, run, prev>>
    /\ UNCHANGED crudVars

\* groups['_meta'] = meta; return groups; self.inventory = ...
GroupNodesReturn ==
    /\ pc = "node"
    /\ i > Len(nodes)
    /\ groups' = Put(groups, "_meta", meta)
    /\ inventory' = groups'
    /\ pc' = "print"
    /\ UNCHANGED <<driver, argv, args, nodes, locations, ifaces, vlans, i,
                   node_vlans, j, meta, output, error, run, prev>>
    /\ UNCHANGED crudVars

\* if self.args.host: data = the host's entry of the meta map; print(data)
PrintHost ==
    /\ pc = "print"
    /\ args.host # None
    /\ IF args.host \in DOMAIN inventory["_meta"].hostvars
       THEN /\ output' = [printed |-> TRUE,
                          data |-> json_format_dict(
                                      inventory["_meta"].hostvars[args.host])]
            /\ pc' = "done"
            /\ UNCHANGED <<inventory, error>>
       ELSE Raise("KeyError")
    /\ UNCHANGED <<driver, argv, args, nodes, locations, ifaces, vlans, i,
                   node_vlans, j, groups, meta, run, prev>>
    /\ UNCHANGED crudVars

\* elif self.args.list: data = the whole inventory; print(data).
\* json.dumps(sort_keys=True) orders the keys: with the key None among
\* string keys Python 2 writes it as null, Python 3 raises TypeError.
PrintList ==
    /\ pc = "print"
    /\ args.host = None
    /\ args.list
    /\ \/ /\ output' = [printed |-> TRUE, data |-> json_format_dict(inventory)]
          /\ pc' = "done"
          /\ UNCHANGED <<inventory, error>>
       \/ /\ None \in DOMAIN inventory
          /\ Raise("TypeError")
    /\ UNCHANGED <<driver, argv, args, nodes, locations, ifaces, vlans, i,
                   node_vlans, j, groups, meta, run, prev>>
    /\ UNCHANGED crudVars

\* neither --host nor --list: data was never assigned when print(data) runs
PrintNothing ==
    /\ pc = "print"
    /\ args.host = None
    /\ ~args.list
    /\ Raise("UnboundLocalError")
    /\ UNCHANGED <<driver, argv, args, nodes, locations, ifaces, vlans, i,
                   node_vlans, j, groups, meta, run, prev>>
    /\ UNCHANGED crudVars

\* the script is run again on the same snapshot with the same command line
Restart ==
    /\ pc \in {"done", "failed"}
    /\ run < MaxRuns
    /\ run' = run + 1
    /\ prev' = [ended |-> pc, error |-> error, inventory |-> inventory]
    /\ pc' = "parse"
    /\ args' = NoArgs
    /\ inventory' = EmptyDict
    /\ output' = NoOutput
    /\ error' = NoError
    /\ UNCHANGED <<driver, argv, nodes, locations, ifaces, vlans, i,
                   node_vlans, j, groups, meta>>
    /\ UNCHANGED crudVars

Next ==
    \/ ParseCliArgs
    \/ GroupNodesStart
    \/ NodeStep
    \/ VlanStep
    \/ GroupNodesReturn
    \/ PrintHost
    \/ PrintList
    \/ PrintNothing

Spec == Init /\ [][Next]_vars

NextRerun == Next \/ Restart

SpecRerun == Init /\ [][NextRerun]_vars

\* the runs over the snapshots of NameSnapshots only
InitNames == InitWith(NameSnapshots)

SpecNames == InitNames /\ [][Next]_vars

\* the runs over the snapshots of VlanSnapshots only
InitVlans == InitWith(VlanSnapshots)

SpecVlans == InitVlans /\ [][Next]_vars

----------------------------------------------------------------------------
(* Vocabulary of the properties *)

Range(seq) == {seq[n] : n \in 1..Len(seq)}

\* how many times x occurs in seq
Count(seq, x) == Cardinality({n \in 1..Len(seq) : seq[n] = x})

\* group_nodes returned: self.inventory holds its result
GroupNodesReturned == "_meta" \in DOMAIN inventory

\* the run ended inside group_nodes
GroupNodesFailed == pc = "failed" /\ "_meta" \notin DOMAIN inventory

\* the member list of a group value, whatever its shape
HostsOf(g) ==
    IF "hosts" \in DOMAIN g THEN g.hosts
    ELSE IF "items" \in DOMAIN g THEN g.items
    ELSE <<>>

\* the number of locations the node's datacenter_id matches
LocationMatchCount(node) ==
    Cardinality({n \in 1..Len(driver.locations) :
                    LocationMatches(driver.locations[n], node)})

EveryNodeMatchesOneLocation ==
    \A n \in 1..Len(driver.nodes) : LocationMatchCount(driver.nodes[n]) = 1

\* the location the node resolves to
ResolvedLocation(node) ==
    driver.locations[FindLocation(node, driver.locations)]

\* the keys of the inventory that are names of locations
DatacenterKeys == {k \in DOMAIN inventory :
                      \E n \in 1..Len(driver.locations) :
                          driver.locations[n].name = k}

\* the VLAN names the interfaces of the node carry
VlanNamesOf(node) ==
    {driver.ifaces[n].extra.vlan :
        n \in {m \in 1..Len(driver.ifaces) :
                  IfaceOfNode(driver.ifaces[m], node)}}

KnownVlanNames == {driver.vlans[n].name : n \in 1..Len(driver.vlans)}

\* some interface of some node carries a VLAN name no VLAN record has
DanglingVlan ==
    \E n \in 1..Len(driver.nodes) :
        VlanNamesOf(driver.nodes[n]) \ KnownVlanNames # {}

----------------------------------------------------------------------------
(* C1 *)

\* C1: whenever every node's datacenter_id matches exactly one location,
\* group_nodes does not fail, and once it has returned every node name is in
\* the hosts of exactly one datacenter group, whose vars are the
\* datacenter_id and country of the location the node resolved to.
C1_OneLocationSucceeds ==
    EveryNodeMatchesOneLocation =>
        /\ ~GroupNodesFailed
        /\ GroupNodesReturned =>
              \A n \in 1..Len(driver.nodes) :
                  LET node == driver.nodes[n]
                      loc == ResolvedLocation(node)
                  IN  /\ Cardinality(
                            {k \in DatacenterKeys :
                                /\ inventory[k].type = "dict"
                                /\ node.name \in Range(HostsOf(inventory[k]))})
                         = 1
                      /\ loc.name \in DOMAIN inventory
                      /\ inventory[loc.name].type = "dict"
                      /\ node.name \in Range(HostsOf(inventory[loc.name]))
                      /\ inventory[loc.name].vars = loc_to_dict(loc)

----------------------------------------------------------------------------
(* C2 *)

\* C2: whenever some node's datacenter_id matches zero locations or more
\* than one, group_nodes never returns an inventory.
C2_NotOneLocationFails ==
    (\E n \in 1..Len(driver.nodes) : LocationMatchCount(driver.nodes[n]) # 1)
        => ~GroupNodesReturned

----------------------------------------------------------------------------
(* C3 *)

\* C3: whenever an interface of a node carries a VLAN name that no record
\* of the vlans collection has, group_nodes never returns an inventory: the
\* run never gets to print and never ends normally.
C3_DanglingVlanFails ==
    DanglingVlan =>
        /\ ~GroupNodesReturned
        /\ pc \notin {"print", "done"}

\* C3 witness: the VLAN lookup of the inner loop found no record and the run
\* ended with StopIteration
C3_Witness ==
    /\ DanglingVlan
    /\ pc = "failed"
    /\ error = "StopIteration"
    /\ j >= 1
    /\ j <= Len(node_vlans)
    /\ FindVlan(node_vlans[j], vlans) = 0
    /\ inventory = EmptyDict

----------------------------------------------------------------------------
(* C4 *)

\* C4: a run that ended with a failed lookup (StopIteration, of a datacenter
\* or of a VLAN) has assigned nothing to self.inventory and has printed
\* nothing, whatever the mode and whatever groups and meta had accumulated.
C4_AllOrNothing ==
    (pc = "failed" /\ error = "StopIteration") =>
        /\ inventory = EmptyDict
        /\ output = NoOutput

\* C4 witness: in list mode the lookup of the second node failed after the
\* first node had been put in its groups and in the meta map
C4_Witness ==
    /\ pc = "failed"
    /\ error = "StopIteration"
    /\ argv.host = None
    /\ argv.list
    /\ i >= 2
    /\ DOMAIN groups # {}
    /\ DOMAIN meta.hostvars # {}
    /\ inventory = EmptyDict
    /\ output = NoOutput

----------------------------------------------------------------------------
(* C5 *)

\* C5: in host mode, once group_nodes has returned, the run does not end in
\* an unhandled exception, and when it ends normally it has printed the
\* entry of the requested host in the meta map.
C5_HostLookup ==
    (argv.host # None /\ GroupNodesReturned) =>
        /\ pc # "failed"
        /\ pc = "done" =>
              /\ argv.host \in DOMAIN inventory["_meta"].hostvars
              /\ output =
                    [printed |-> TRUE,
                     data |-> inventory["_meta"].hostvars[argv.host]]

----------------------------------------------------------------------------
(* C6 *)

\* C6: in a second run on the same snapshot, what group_nodes hands to
\* self.inventory (the groups, their members and the meta map, or nothing
\* when it failed) is what it handed over in the first run.
C6_RerunSameInventory ==
    (run > 1 /\ pc \in {"print", "done", "failed"}) =>
        inventory = prev.inventory

\* C6 witness: a second run that ended normally with a farm group, a
\* datacenter group and the meta map, equal to those of the first run
C6_Witness ==
    /\ run = 2
    /\ pc = "done"
    /\ Cardinality(DOMAIN inventory) >= 3
    /\ DOMAIN inventory["_meta"].hostvars # {}
    /\ prev.ended = "done"
    /\ inventory = prev.inventory

----------------------------------------------------------------------------
(* C7 *)

\* the hosts of the {hosts, vars} group named v in the inventory
GroupHosts(v) ==
    IF v \in DOMAIN inventory /\ v # "_meta" /\ inventory[v].type = "dict"
    THEN inventory[v].hosts
    ELSE <<>>

\* C7: once group_nodes has returned, for every node and every VLAN name V
\* the node's name is in the hosts of group V exactly when an interface of
\* the node carries V, and then it is there once.
C7_VlanMembership ==
    GroupNodesReturned =>
        \A n \in 1..Len(driver.nodes) :
            \A v \in KnownVlanNames :
                LET node == driver.nodes[n]
                    occurrences == Count(GroupHosts(v), node.name)
                IN  /\ (occurrences >= 1) <=> (v \in VlanNamesOf(node))
                    /\ occurrences <= 1

----------------------------------------------------------------------------
(* C8 *)

\* C8: once group_nodes has returned, the keys of the inventory are exactly
\* the farm labels that are not None, the names of the locations the nodes
\* resolved to, the VLAN names their interfaces carry, and '_meta'.
C8_GroupKeys ==
    GroupNodesReturned =>
        DOMAIN inventory =
            ({driver.nodes[n].extra.farm : n \in 1..Len(driver.nodes)}
                \ {None})
            \cup {ResolvedLocation(driver.nodes[n]).name :
                     n \in 1..Len(driver.nodes)}
            \cup UNION {VlanNamesOf(driver.nodes[n]) :
                           n \in 1..Len(driver.nodes)}
            \cup {"_meta"}

----------------------------------------------------------------------------
(* C9 *)

\* C9: once group_nodes has returned, '_meta' holds the meta map, hostvars
\* has an entry for every node, and the group of every farm label is still
\* the list of hosts built for it.
C9_MetaAttached ==
    GroupNodesReturned =>
        /\ inventory["_meta"] = meta
        /\ \A n \in 1..Len(driver.nodes) :
              LET node == driver.nodes[n]
              IN  /\ node.name \in DOMAIN inventory["_meta"].hostvars
                  /\ node.extra.farm \in DOMAIN inventory
                  /\ inventory[node.extra.farm].type = "list"
                  /\ node.name \in Range(HostsOf(inventory[node.extra.farm]))

----------------------------------------------------------------------------
(* C10 *)

\* C10: in every state of group_nodes the group of a farm label is a bare
\* list and the group of a datacenter or VLAN name is a {hosts, vars}
\* record, and group_nodes never ends in the AttributeError or TypeError
\* that a name shared between those kinds of group raises.
C10_GroupShapes ==
    /\ \A k \in (DOMAIN groups) \ {"_meta"} :
          /\ (\E n \in 1..Len(nodes) : nodes[n].extra.farm = k)
                => groups[k].type = "list"
          /\ (\/ \E n \in 1..Len(locations) : locations[n].name = k
              \/ \E n \in 1..Len(vlans) : vlans[n].name = k)
                => /\ groups[k].type = "dict"
                   /\ DOMAIN groups[k] = {"type", "hosts", "vars"}
    /\ GroupNodesFailed => error \notin {"AttributeError", "TypeError"}

----------------------------------------------------------------------------
(* C11 *)

\* the position of the node of that name in the list group_nodes iterates
NodeIndex(name) == CHOOSE n \in 1..Len(nodes) : nodes[n].name = name

\* the members of every group are in the order of their nodes
HostsInNodeOrder ==
    \A k \in DOMAIN groups :
        LET h == HostsOf(groups[k])
        IN  \A p, q \in 1..Len(h) :
                p < q => NodeIndex(h[p]) <= NodeIndex(h[q])

\* a step leaves every group that has vars in place with the same vars
VarsKept ==
    \A k \in DOMAIN groups :
        ("vars" \in DOMAIN groups[k]) =>
            /\ k \in DOMAIN groups'
            /\ "vars" \in DOMAIN groups'[k]
            /\ groups'[k].vars = groups[k].vars

\* C11: in every farm, datacenter and VLAN group the host names are in the
\* order in which their nodes were processed, and no step changes the vars
\* a group was created with.
C11_OrderAndVars == [](HostsInNodeOrder) /\ [][VarsKept]_vars

\* C11 witness: group_nodes returned a farm group and a {hosts, vars} group
\* that both hold the first and then the second node of the list
C11_Witness ==
    /\ pc = "print"
    /\ Len(nodes) >= 2
    /\ \E k \in DOMAIN groups :
          /\ groups[k].type = "list"
          /\ groups[k].items = <<nodes[1].name, nodes[2].name>>
    /\ \E k \in DOMAIN groups :
          /\ "vars" \in DOMAIN groups[k]
          /\ groups[k].hosts = <<nodes[1].name, nodes[2].name>>
          /\ groups[k].vars = loc_to_dict(locations[FindLocation(nodes[1],
                                                                locations)])

----------------------------------------------------------------------------
(***************************************************************************)
(* The resource modules.  prov is the provider's account as the driver     *)
(* lists it; proc[p] is one invocation of a module's main(): its           *)
(* parameters, its position, its local variables, the calls it made on the *)
(* driver and what it ended with.                                          *)
(***************************************************************************)

Procs == {1, 2}

\* what _get_by_name returns when no entity has the name
NoEntity == [found |-> FALSE]

\* a record of the provider, as the driver returns it
Entity(id, name) == [found |-> TRUE, id |-> id, name |-> name]

\* the datacenters, images and sizes of the provider
Datacenters == <<Entity(1, "Bissen"), Entity(2, "FR-SD5")>>
Images == <<Entity(1, "Debian 8")>>
Sizes == <<Entity(1, "Small instance")>>

\* find = [x for x in entities if x.name == name]; find[0] if find else None
get_by_name(name, entities) ==
    LET find == SelectSeq(entities, LAMBDA x : x.name = name)
    IN  IF Len(find) > 0 THEN find[1] ELSE NoEntity

\* an existence test that finds nothing whatever the listing holds
NotFoundEver(entity) == TRUE

\* "if not pvlan:", "if not inst:" before the create call
NotFound(entity) == entity = NoEntity

\* the entity of the listing as it is now instead of the one looked up
Relisted(looked_up, listed) == listed

\* the local pvlan / inst on which the create call is decided: what the
\* lookup before it returned, not what the listing holds at the call
Observed(looked_up, listed) == looked_up

\* the entities of a list without the one of that id
WithoutId(entities, id) == SelectSeq(entities, LAMBDA x : x.id # id)

\* one call of a method of the driver: the method, the name it is about,
\* whether it returned normally and, if so, whether what it returned is true
Call(op, arg, ok) == [op |-> op, arg |-> arg, ok |-> ok, value |-> ok]

\* a call of the driver that returned a false value
ReturnedFalse(op, arg) == [op |-> op, arg |-> arg, ok |-> TRUE, value |-> FALSE]

\* the methods of the driver that change the account
MutatingOps == {"ex_create_pvlan", "ex_delete_pvlan", "ex_create_iface",
                "create_node", "destroy_node", "start_node", "stop_node",
                "reboot_node", "create_volume", "attach_volume"}

\* a parameter the caller leaves out
NotGiven == "NotGiven"

\* the default of a parameter in the argument_spec of a module; a
\* parameter without a default, or that the module does not have, is None
DefaultOf(module, key) ==
    CASE key = "state" ->
             IF module = "gandi_vps" THEN "running" ELSE "created"
      [] key = "datacenter" ->
             IF module = "gandi_vps" THEN "FR-SD5" ELSE "Bissen"
      [] key = "image" /\ module = "gandi_vps" -> "Debian 8"
      [] key = "machine_type" /\ module = "gandi_vps" -> "Small instance"
      [] OTHER -> None

\* module.params[key]: what is given, or the default of the parameter
ParamOf(module, key, given) ==
    IF given = NotGiven THEN DefaultOf(module, key) ELSE given

\* AnsibleModule.params of an invocation that is given, or not, state,
\* name and datacenter, and no other parameter
Params(module, state, name, datacenter) ==
    [state |-> ParamOf(module, "state", state),
     name |-> ParamOf(module, "name", name),
     datacenter |-> ParamOf(module, "datacenter", datacenter),
     instance_names |-> [type |-> "NoneType"], extra_disks |-> <<>>,
     image |-> DefaultOf(module, "image"),
     machine_type |-> DefaultOf(module, "machine_type"),
     vlan |-> DefaultOf(module, "vlan"),
     ip_version |-> DefaultOf(module, "ip_version")]

NoResult == [kind |-> "none"]

\* main() is entered: nothing is assigned yet
NewProc(module, params) ==
    [module |-> module, params |-> params, pc |-> "main",
     json_output |-> EmptyDict, changed |-> FALSE,
     inames |-> <<>>, k |-> 0, d |-> 0, inst |-> NoEntity,
     disk |-> NoEntity, location |-> NoEntity,
     new_instances |-> <<>>, instance_json_data |-> <<>>,
     calls |-> <<>>, result |-> NoResult]

\* the positions at which an invocation has ended
Terminal == {"exit", "failed", "crashed"}

\* module.fail_json(msg=msg, changed=False): the failure is printed and the
\* process exits with status 1
fail_json_unchanged(P, msg) ==
    [P EXCEPT !.pc = "failed",
              !.result = [kind |-> "fail_json",
                          json |-> [failed |-> TRUE, msg |-> msg,
                                    changed |-> FALSE]]]

\* module.fail_json(msg=msg)
fail_json(P, msg) ==
    [P EXCEPT !.pc = "failed",
              !.result = [kind |-> "fail_json",
                          json |-> [failed |-> TRUE, msg |-> msg]]]

\* an exception nobody catches: a traceback, no JSON result
Traceback(P, e) ==
    [P EXCEPT !.pc = "crashed",
              !.result = [kind |-> "traceback", error |-> e]]

\* json_output['changed'] = changed; print json.dumps(json_output);
\* sys.exit(0)
exit_json(P, json_output, changed) ==
    [P EXCEPT !.pc = "exit",
              !.changed = changed,
              !.json_output = Put(json_output, "changed", changed),
              !.result = [kind |-> "exit",
                          json |-> Put(json_output, "changed", changed)]]

\* the invocation with one more call in its log
Logged(P, c) == [P EXCEPT !.calls = Append(@, c)]

\* a listing call of the driver raises outside any try: a traceback
ListingRaised(P, op, arg) ==
    Traceback(Logged(P, Call(op, arg, FALSE)), "GandiException")

\* a listing call of the driver raises under try/except Exception:
\* module.fail_json(msg=unexpected_error_msg(e), changed=False)
ListingCaught(P, op, arg) ==
    fail_json_unchanged(Logged(P, Call(op, arg, FALSE)), "GandiException")

----------------------------------------------------------------------------
(* gandi_vlan.  A call of the driver, whether it lists or changes the      *)
(* account, either returns or raises GandiException.                       *)

\* get_pvlan_info
get_pvlan_info(pvlan) ==
    [name |-> pvlan.name, subnet |-> None, gateway |-> None,
     datacenter_id |-> pvlan.datacenter_id]

\* the private VLAN ex_create_pvlan makes
NewPvlan(id, name, location) ==
    [found |-> TRUE, id |-> id, name |-> name, datacenter_id |-> location.id]

\* main() up to the dispatch on state
VlanMain(p) ==
    LET P == proc[p]
        name == P.params.name
        state == P.params.state
        dc == P.params.datacenter
    IN  /\ P.module = "gandi_vlan"
        /\ P.pc = "main"
        /\ proc' = [proc EXCEPT ![p] =
              IF name = None
              THEN fail_json_unchanged(P, "Must specify a \"name\"")
              ELSE IF dc = None /\ state = "created"
              THEN fail_json_unchanged(P, "Must specify a \"datacenter\"")
              ELSE [P EXCEPT
                      !.json_output = Put(Put(EmptyDict, "datacenter", dc),
                                          "state", state),
                      !.pc = IF state = "deleted" THEN "delete_pvlan"
                                                  ELSE "create_pvlan"]]
        /\ UNCHANGED prov
        /\ UNCHANGED invVars

\* create_pvlan: lc_location = get_datacenter(driver, datacenter)
CreatePvlanLocation(p) ==
    LET P == Logged(proc[p],
                    Call("list_locations", proc[p].params.datacenter, TRUE))
        lc_location == get_by_name(P.params.datacenter, Datacenters)
    IN  /\ P.module = "gandi_vlan"
        /\ P.pc = "create_pvlan"
        /\ \/ proc' = [proc EXCEPT ![p] =
                 IF lc_location = NoEntity
                 THEN fail_json_unchanged(P, "Invalid datacenter")
                 ELSE [P EXCEPT !.location = lc_location, !.pc = "get_pvlan"]]
           \/ proc' = [proc EXCEPT ![p] =
                 ListingRaised(proc[p], "list_locations",
                               proc[p].params.datacenter)]
        /\ UNCHANGED prov
        /\ UNCHANGED invVars

\* what main() prints after create_pvlan returned
CreatePvlanReturn(P, pvlan, changed) ==
    exit_json(P, Put(Put(P.json_output, "pvlan_data", get_pvlan_info(pvlan)),
                     "name", P.params.name),
              changed)

\* create_pvlan: pvlan = get_pvlan(driver, pvlan_name); an existing VLAN
\* is returned as it is
CreatePvlanGet(p) ==
    LET P == Logged(proc[p], Call("ex_list_pvlans", proc[p].params.name, TRUE))
        pvlan == get_by_name(P.params.name, prov.pvlans)
    IN  /\ P.module = "gandi_vlan"
        /\ P.pc = "get_pvlan"
        /\ \/ proc' = [proc EXCEPT ![p] =
                 IF NotFound(pvlan)
                 THEN [P EXCEPT !.inst = pvlan, !.pc = "ex_create_pvlan"]
                 ELSE CreatePvlanReturn([P EXCEPT !.inst = pvlan], pvlan,
                                        FALSE)]
           \/ proc' = [proc EXCEPT ![p] =
                 ListingRaised(proc[p], "ex_list_pvlans",
                               proc[p].params.name)]
        /\ UNCHANGED prov
        /\ UNCHANGED invVars

\* create_pvlan: driver.ex_create_pvlan(...) under try/except GandiException
CreatePvlanCall(p) ==
    LET P == proc[p]
        name == P.params.name
        pvlan == NewPvlan(prov.next_id, name, P.location)
    IN  /\ P.module = "gandi_vlan"
        /\ P.pc = "ex_create_pvlan"
        /\ NotFound(Observed(P.inst, get_by_name(name, prov.pvlans)))
        /\ \/ /\ prov' = [prov EXCEPT !.pvlans = Append(@, pvlan),
                                      !.next_id = @ + 1]
              /\ proc' = [proc EXCEPT ![p] =
                    CreatePvlanReturn(
                        [Logged(P, Call("ex_create_pvlan", name, TRUE))
                            EXCEPT !.inst = pvlan],
                        pvlan, TRUE)]
           \/ /\ proc' = [proc EXCEPT ![p] =
                    fail_json(Logged(P, Call("ex_create_pvlan", name, FALSE)),
                              "Unexpected error attempting to create pvlan")]
              /\ UNCHANGED prov
        /\ UNCHANGED invVars

\* what main() prints after delete_pvlan returned
DeletePvlanReturn(P, changed) ==
    exit_json(P, Put(P.json_output, "name", P.params.name), changed)

\* delete_pvlan: pvlan = get_pvlan(driver, pvlan_name); nothing to delete
\* when there is none
DeletePvlanGet(p) ==
    LET P == Logged(proc[p], Call("ex_list_pvlans", proc[p].params.name, TRUE))
        pvlan == get_by_name(P.params.name, prov.pvlans)
    IN  /\ P.module = "gandi_vlan"
        /\ P.pc = "delete_pvlan"
        /\ \/ proc' = [proc EXCEPT ![p] =
                 IF pvlan = NoEntity
                 THEN DeletePvlanReturn(P, FALSE)
                 ELSE [P EXCEPT !.inst = pvlan, !.pc = "ex_delete_pvlan"]]
           \/ proc' = [proc EXCEPT ![p] =
                 ListingCaught(proc[p], "ex_list_pvlans",
                               proc[p].params.name)]
        /\ UNCHANGED prov
        /\ UNCHANGED invVars

\* delete_pvlan: driver.ex_delete_pvlan(pvlan), outside any try
DeletePvlanCall(p) ==
    LET P == proc[p]
        name == P.params.name
    IN  /\ P.module = "gandi_vlan"
        /\ P.pc = "ex_delete_pvlan"
        /\ \/ /\ prov' = [prov EXCEPT !.pvlans = WithoutId(@, P.inst.id)]
              /\ proc' = [proc EXCEPT ![p] =
                    DeletePvlanReturn(
                        Logged(P, Call("ex_delete_pvlan", name, TRUE)), TRUE)]
           \/ /\ proc' = [proc EXCEPT ![p] =
                    Traceback(Logged(P, Call("ex_delete_pvlan", name, FALSE)),
                              "GandiException")]
              /\ UNCHANGED prov
        /\ UNCHANGED invVars

----------------------------------------------------------------------------
(* gandi_iface *)

\* the interface ex_create_iface makes; vlan is the VLAN found or NoEntity
NewIface(id, pvlan, location) ==
    [found |-> TRUE, id |-> id, vlan |-> pvlan, datacenter_id |-> location.id]

\* get_iface_info
get_iface_info(iface) ==
    [vlan |-> IF iface.vlan = NoEntity THEN None ELSE iface.vlan.name,
     bandwidth |-> None,
     datacenter_id |-> iface.datacenter_id]

\* main() up to the dispatch on state; the deleted branch reads the local
\* iface_id, which nothing assigns
IfaceMain(p) ==
    LET P == proc[p]
        state == P.params.state
        dc == P.params.datacenter
        json_output == Put(Put(EmptyDict, "datacenter", dc), "state", state)
    IN  /\ P.module = "gandi_iface"
        /\ P.pc = "main"
        /\ proc' = [proc EXCEPT ![p] =
              IF dc = None /\ state = "created"
              THEN fail_json_unchanged(P, "Must specify a \"datacenter\"")
              ELSE IF state = "deleted"
              THEN Traceback([P EXCEPT !.json_output = json_output],
                             "UnboundLocalError")
              ELSE [P EXCEPT !.json_output = json_output,
                             !.pc = "create_iface"]]
        /\ UNCHANGED prov
        /\ UNCHANGED invVars

\* create_iface: lc_location = get_datacenter(driver, datacenter)
CreateIfaceLocation(p) ==
    LET P == Logged(proc[p],
                    Call("list_locations", proc[p].params.datacenter, TRUE))
        lc_location == get_by_name(P.params.datacenter, Datacenters)
    IN  /\ P.module = "gandi_iface"
        /\ P.pc = "create_iface"
        /\ \/ proc' = [proc EXCEPT ![p] =
                 IF lc_location = NoEntity
                 THEN fail_json_unchanged(P, "Invalid datacenter")
                 ELSE [P EXCEPT !.location = lc_location, !.pc = "get_pvlan"]]
           \/ proc' = [proc EXCEPT ![p] =
                 ListingRaised(proc[p], "list_locations",
                               proc[p].params.datacenter)]
        /\ UNCHANGED prov
        /\ UNCHANGED invVars

\* create_iface: pvlan = get_pvlan(driver, pvlan_name), then the test on
\* ip_version; the interfaces of the account are not listed
CreateIfaceGet(p) ==
    LET P == Logged(proc[p], Call("ex_list_pvlans", proc[p].params.vlan, TRUE))
        pvlan == get_by_name(P.params.vlan, prov.pvlans)
    IN  /\ P.module = "gandi_iface"
        /\ P.pc = "get_pvlan"
        /\ \/ proc' = [proc EXCEPT ![p] =
                 IF pvlan = NoEntity /\ P.params.ip_version = None
                 THEN fail_json_unchanged(P,
                          "ip_version is mandatory when not a vlan")
                 ELSE [P EXCEPT !.inst = pvlan, !.pc = "ex_create_iface"]]
           \/ proc' = [proc EXCEPT ![p] =
                 ListingRaised(proc[p], "ex_list_pvlans",
                               proc[p].params.vlan)]
        /\ UNCHANGED prov
        /\ UNCHANGED invVars

\* create_iface: driver.ex_create_iface(...) under try/except
\* GandiException, then what main() prints
CreateIfaceCall(p) ==
    LET P == proc[p]
        iface == NewIface(prov.next_id, P.inst, P.location)
    IN  /\ P.module = "gandi_iface"
        /\ P.pc = "ex_create_iface"
        /\ \/ /\ prov' = [prov EXCEPT !.ifaces = Append(@, iface),
                                      !.next_id = @ + 1]
              /\ proc' = [proc EXCEPT ![p] =
                    exit_json(
                        Logged(P, Call("ex_create_iface", P.params.vlan, TRUE)),
                        Put(P.json_output, "iface_data", get_iface_info(iface)),
                        TRUE)]
           \/ /\ proc' = [proc EXCEPT ![p] =
                    fail_json(
                        Logged(P, Call("ex_create_iface", P.params.vlan,
                                       FALSE)),
                        "Unexpected error attempting to create iface")]
              /\ UNCHANGED prov
        /\ UNCHANGED invVars

----------------------------------------------------------------------------
(* gandi_vps: main() and create_instances *)

\* Python values of more than one type in the result of gandi_vps
PyNone == [type |-> "NoneType"]
PyStr(value) == [type |-> "str", value |-> value]
PyDict(value) == [type |-> "dict", value |-> value]

\* instance_names as a list, and as a string "a,b" given by the names that
\* [x.strip() for x in instance_names.split(',')] makes of it
NamesList(names) == [type |-> "list", items |-> names]
NamesStr(names) == [type |-> "str", items |-> names]

\* an extra disk of the parameters; the size is a string of digits
Disk(name, size) == [name |-> name, size |-> size]

\* inames with name appended whether or not a name is given
InamesWithNone(params) ==
    Append(IF params.instance_names.type \in {"list", "str"}
           THEN params.instance_names.items
           ELSE <<>>,
           params.name)

\* inames of main(): the list given, or the names of the string, or a new
\* list, and then name appended
Inames(params) ==
    LET given == IF params.instance_names.type \in {"list", "str"}
                 THEN params.instance_names.items
                 ELSE <<>>
    IN  IF params.name # None THEN Append(given, params.name) ELSE given

\* "if instance_names:" at the end of main(); a list given as instance_names
\* is the very list inames that main() and terminate_instances append to
InstanceNamesGiven(P) ==
    CASE P.params.instance_names.type = "list" -> Len(P.inames) > 0
      [] P.params.instance_names.type = "str" -> TRUE
      [] OTHER -> FALSE

\* the key under which main() returns the names
WithNames(P, json_output, names) ==
    IF InstanceNamesGiven(P)
    THEN Put(json_output, "instance_names", names)
    ELSE IF P.params.name # None
    THEN Put(json_output, "name", PyStr(P.params.name))
    ELSE json_output

\* get_instance_info of a node without interfaces and without extra fields
get_instance_info(inst) ==
    [image |-> None, cores |-> None, ram |-> None, name |-> inst.name,
     datacenter_id |-> None, public_ifaces |-> <<>>, private_ifaces |-> <<>>,
     cname |-> None, farm |-> None]

\* main() up to the dispatch on state
VpsMain(p) ==
    LET P == proc[p]
        state == P.params.state
        dc == P.params.datacenter
        inames == Inames(P.params)
    IN  /\ P.module = "gandi_vps"
        /\ P.pc = "main"
        /\ proc' = [proc EXCEPT ![p] =
              IF inames = <<>>
              THEN fail_json_unchanged([P EXCEPT !.inames = inames],
                       "Must specify a \"name\" or \"instance_names\"")
              ELSE IF dc = None
              THEN fail_json_unchanged([P EXCEPT !.inames = inames],
                       "Must specify a \"datacenter\"")
              ELSE [P EXCEPT
                      !.inames = inames,
                      !.k = 1,
                      !.json_output = Put(Put(EmptyDict, "datacenter", dc),
                                          "state", state),
                      !.pc = CASE state = "deleted" -> "terminate_instances"
                               [] state = "running" -> "create_instances"
                               [] OTHER -> "operate_instances"]]
        /\ UNCHANGED prov
        /\ UNCHANGED invVars

\* create_instances: lc_location = get_datacenter(driver, datacenter)
CreateInstancesLocation(p) ==
    LET P == Logged(proc[p],
                    Call("list_locations", proc[p].params.datacenter, TRUE))
        lc_location == get_by_name(P.params.datacenter, Datacenters)
    IN  /\ P.module = "gandi_vps"
        /\ P.pc = "create_instances"
        /\ \/ proc' = [proc EXCEPT ![p] =
                 IF lc_location = NoEntity
                 THEN fail_json_unchanged(P, "Invalid datacenter")
                 ELSE [P EXCEPT !.location = lc_location, !.pc = "get_image"]]
           \/ proc' = [proc EXCEPT ![p] =
                 ListingRaised(proc[p], "list_locations",
                               proc[p].params.datacenter)]
        /\ UNCHANGED prov
        /\ UNCHANGED invVars

\* create_instances once it has an image: a custom machine type is made
\* without a call of the driver, any other is looked up
AfterImage(P) ==
    [P EXCEPT !.pc = IF P.params.machine_type = "custom"
                     THEN "get_node" ELSE "get_size"]

\* create_instances: lc_image = get_image(driver, image, lc_location)
CreateInstancesImage(p) ==
    LET P == Logged(proc[p], Call("list_images", proc[p].params.image, TRUE))
        lc_image == get_by_name(P.params.image, Images)
    IN  /\ P.module = "gandi_vps"
        /\ P.pc = "get_image"
        /\ \/ proc' = [proc EXCEPT ![p] =
                 IF lc_image = NoEntity
                 THEN [P EXCEPT !.pc = "get_volume"]
                 ELSE AfterImage(P)]
           \/ proc' = [proc EXCEPT ![p] =
                 ListingRaised(proc[p], "list_images",
                               proc[p].params.image)]
        /\ UNCHANGED prov
        /\ UNCHANGED invVars

\* create_instances: lc_image = get_volume(driver, image) when no image
\* has the name
CreateInstancesVolume(p) ==
    LET P == Logged(proc[p], Call("list_volumes", proc[p].params.image, TRUE))
        lc_image == get_by_name(P.params.image, prov.volumes)
    IN  /\ P.module = "gandi_vps"
        /\ P.pc = "get_volume"
        /\ \/ proc' = [proc EXCEPT ![p] =
                 IF lc_image = NoEntity
                 THEN fail_json_unchanged(P, "No such image or volume")
                 ELSE AfterImage(P)]
           \/ proc' = [proc EXCEPT ![p] =
                 ListingRaised(proc[p], "list_volumes",
                               proc[p].params.image)]
        /\ UNCHANGED prov
        /\ UNCHANGED invVars

\* create_instances: lc_size = get_size(driver, machine_type)
CreateInstancesSize(p) ==
    LET P == Logged(proc[p],
                    Call("list_sizes", proc[p].params.machine_type, TRUE))
        lc_size == get_by_name(P.params.machine_type, Sizes)
    IN  /\ P.module = "gandi_vps"
        /\ P.pc = "get_size"
        /\ \/ proc' = [proc EXCEPT ![p] =
                 IF lc_size = NoEntity
                 THEN fail_json_unchanged(P, "Invalid machine type")
                 ELSE [P EXCEPT !.pc = "get_node"]]
           \/ proc' = [proc EXCEPT ![p] =
                 ListingRaised(proc[p], "list_sizes",
                               proc[p].params.machine_type)]
        /\ UNCHANGED prov
        /\ UNCHANGED invVars

\* the node create_node makes
NewNode(id, name) == Entity(id, name)

\* the volume create_volume makes, attached to a node or to none
NewVolume(id, disk, node) ==
    [found |-> TRUE, id |-> id, name |-> disk.name,
     size |-> ParseInt(disk.size), node |-> node]

\* the volumes of the account after attach_volume(inst, disk) returned true
Attached(volumes, disk, inst) ==
    [n \in 1..Len(volumes) |->
        IF volumes[n].id = disk.id
        THEN [volumes[n] EXCEPT !.node = inst.id]
        ELSE volumes[n]]

\* driver.ex_get_node(id): the node of that identifier as the provider
\* has it, listed or not
ex_get_node(known, id) ==
    LET find == SelectSeq(known, LAMBDA x : x.id = id)
    IN  find[1]

\* "if changed: if extra_disks:" of the loop of create_instances
WithExtraDisks(changed, extra_disks) == changed /\ extra_disks # <<>>

\* the end of one round of the loop of create_instances:
\* new_instances.append(inst_full), and on to the next name
NextInstance(P, inst_full) ==
    [P EXCEPT !.new_instances = Append(@, inst_full),
              !.k = @ + 1,
              !.pc = "get_node"]

\* after "if inst:" holds in the loop: the extra disks first, if any, then
\* the node is read again
AfterInst(P, inst, extra_disks) ==
    IF extra_disks
    THEN [P EXCEPT !.inst = inst, !.d = 1, !.pc = "create_volume"]
    ELSE [P EXCEPT !.inst = inst, !.pc = "ex_get_node"]

\* create_instances: inst = get_node(driver, name) for the next name
CreateInstancesGet(p) ==
    LET name == proc[p].inames[proc[p].k]
        P == Logged(proc[p], Call("list_nodes", name, TRUE))
        inst == get_by_name(name, prov.nodes)
    IN  /\ proc[p].module = "gandi_vps"
        /\ proc[p].pc = "get_node"
        /\ proc[p].k <= Len(proc[p].inames)
        /\ \/ proc' = [proc EXCEPT ![p] =
                 IF NotFound(inst)
                 THEN [P EXCEPT !.inst = inst, !.pc = "create_node"]
                 ELSE AfterInst(P, inst,
                          WithExtraDisks(P.changed, P.params.extra_disks))]
           \/ proc' = [proc EXCEPT ![p] =
                 ListingRaised(proc[p], "list_nodes", name)]
        /\ UNCHANGED prov
        /\ UNCHANGED invVars

\* create_instances: driver.create_node(...) under try/except GandiException
CreateInstancesCall(p) ==
    LET P == proc[p]
        name == P.inames[P.k]
        inst == NewNode(prov.next_id, name)
    IN  /\ P.module = "gandi_vps"
        /\ P.pc = "create_node"
        /\ NotFound(Observed(P.inst, get_by_name(name, prov.nodes)))
        /\ \/ /\ prov' = [prov EXCEPT !.nodes = Append(@, inst),
                                      !.known = Append(@, inst),
                                      !.next_id = @ + 1]
              /\ proc' = [proc EXCEPT ![p] =
                    AfterInst([Logged(P, Call("create_node", name, TRUE))
                                  EXCEPT !.changed = TRUE],
                              inst,
                              WithExtraDisks(TRUE, P.params.extra_disks))]
           \/ /\ proc' = [proc EXCEPT ![p] =
                    fail_json(Logged(P, Call("create_node", name, FALSE)),
                              "Unexpected error when creating instance")]
              /\ UNCHANGED prov
        /\ UNCHANGED invVars

\* create_instances: disk = driver.create_volume(...) for the next extra
\* disk, outside any try
CreateInstancesDisk(p) ==
    LET P == proc[p]
        name == P.inst.name
        disk == NewVolume(prov.next_id, P.params.extra_disks[P.d], 0)
    IN  /\ P.module = "gandi_vps"
        /\ P.pc = "create_volume"
        /\ \/ /\ prov' = [prov EXCEPT !.volumes = Append(@, disk),
                                      !.next_id = @ + 1]
              /\ proc' = [proc EXCEPT ![p] =
                    [Logged(P, Call("create_volume", name, TRUE))
                        EXCEPT !.disk = disk, !.pc = "attach_volume"]]
           \/ /\ proc' = [proc EXCEPT ![p] =
                    Traceback(Logged(P, Call("create_volume", name, FALSE)),
                              "GandiException")]
              /\ UNCHANGED prov
        /\ UNCHANGED invVars

\* create_instances: disk_attached = driver.attach_volume(inst, disk),
\* outside any try; the message for a disk that is not attached has a bad
\* format
CreateInstancesAttach(p) ==
    LET P == proc[p]
        name == P.inst.name
    IN  /\ P.module = "gandi_vps"
        /\ P.pc = "attach_volume"
        /\ \/ /\ prov' = [prov EXCEPT
                    !.volumes = Attached(@, P.disk, P.inst)]
              /\ proc' = [proc EXCEPT ![p] =
                    LET Q == Logged(P, Call("attach_volume", name, TRUE))
                    IN  IF P.d < Len(P.params.extra_disks)
                        THEN [Q EXCEPT !.d = @ + 1, !.pc = "create_volume"]
                        ELSE [Q EXCEPT !.pc = "ex_get_node"]]
           \/ /\ proc' = [proc EXCEPT ![p] =
                    Traceback(Logged(P, ReturnedFalse("attach_volume", name)),
                              "ValueError")]
              /\ UNCHANGED prov
           \/ /\ proc' = [proc EXCEPT ![p] =
                    Traceback(Logged(P, Call("attach_volume", name, FALSE)),
                              "GandiException")]
              /\ UNCHANGED prov
        /\ UNCHANGED invVars

\* create_instances: inst_full = driver.ex_get_node(inst.id), outside any
\* try, and new_instances.append(inst_full)
CreateInstancesRefresh(p) ==
    LET P == proc[p]
        name == P.inst.name
    IN  /\ P.module = "gandi_vps"
        /\ P.params.state = "running"
        /\ P.pc = "ex_get_node"
        /\ \/ proc' = [proc EXCEPT ![p] =
                 NextInstance(Logged(P, Call("ex_get_node", name, TRUE)),
                              ex_get_node(prov.known, P.inst.id))]
           \/ proc' = [proc EXCEPT ![p] =
                 Traceback(Logged(P, Call("ex_get_node", name, FALSE)),
                           "GandiException")]
        /\ UNCHANGED prov
        /\ UNCHANGED invVars

\* the names of a list of nodes
NamesOf(insts) == [n \in 1..Len(insts) |-> insts[n].name]

\* the instance data create_instances returns: a list, or the one dictionary
CreatedData(new_instances) ==
    IF Len(new_instances) = 1
    THEN PyDict(get_instance_info(new_instances[1]))
    ELSE PyList([n \in 1..Len(new_instances) |->
                    get_instance_info(new_instances[n])])

\* the names create_instances returns: a list, or the one name
CreatedNames(new_instances) ==
    IF Len(new_instances) = 1
    THEN PyStr(new_instances[1].name)
    ELSE PyList(NamesOf(new_instances))

\* create_instances after its loop, and what main() prints
CreateInstancesReturn(p) ==
    LET P == proc[p]
    IN  /\ P.module = "gandi_vps"
        /\ P.pc = "get_node"
        /\ P.k > Len(P.inames)
        /\ proc' = [proc EXCEPT ![p] =
              exit_json(P,
                  WithNames(P, Put(P.json_output, "instance_data",
                                   CreatedData(P.new_instances)),
                            CreatedNames(P.new_instances)),
                  P.changed)]
        /\ UNCHANGED prov
        /\ UNCHANGED invVars

----------------------------------------------------------------------------
(* gandi_vps: stop_instances, start_instances, reboot_instances *)

\* the method of the driver behind each of the three states
OperationOf(state) ==
    CASE state = "halted" -> "stop_node"
      [] state = "started" -> "start_node"
      [] state = "rebooted" -> "reboot_node"

\* inst = get_node(driver, name) for the next name; a name without a node
\* is passed over
OperateGet(p) ==
    LET name == proc[p].inames[proc[p].k]
        P == Logged(proc[p], Call("list_nodes", name, TRUE))
        inst == get_by_name(name, prov.nodes)
    IN  /\ proc[p].module = "gandi_vps"
        /\ proc[p].pc = "operate_instances"
        /\ proc[p].k <= Len(proc[p].inames)
        /\ \/ proc' = [proc EXCEPT ![p] =
                 IF inst = NoEntity
                 THEN [P EXCEPT !.inst = inst, !.k = @ + 1]
                 ELSE [P EXCEPT !.inst = inst, !.pc = "operate_node"]]
           \/ proc' = [proc EXCEPT ![p] =
                 ListingRaised(proc[p], "list_nodes", name)]
        /\ UNCHANGED prov
        /\ UNCHANGED invVars

\* ope_status = driver.stop_node(inst) (start_node, reboot_node) under
\* try/except GandiException; changed only "if ope_status:"
OperateCall(p) ==
    LET P == proc[p]
        name == P.inames[P.k]
        op == OperationOf(P.params.state)
    IN  /\ P.module = "gandi_vps"
        /\ P.pc = "operate_node"
        /\ \/ proc' = [proc EXCEPT ![p] =
                 [Logged(P, Call(op, name, TRUE))
                     EXCEPT !.changed = TRUE, !.k = @ + 1,
                            !.pc = "operate_instances"]]
           \/ proc' = [proc EXCEPT ![p] =
                 [Logged(P, ReturnedFalse(op, name))
                     EXCEPT !.k = @ + 1, !.pc = "operate_instances"]]
           \/ proc' = [proc EXCEPT ![p] =
                 fail_json(Logged(P, Call(op, name, FALSE)),
                           "Unexpected error when starting instance")]
        /\ UNCHANGED prov
        /\ UNCHANGED invVars

\* return (changed, instance_names), and what main() prints: no
\* instance_data
OperateReturn(p) ==
    LET P == proc[p]
    IN  /\ P.module = "gandi_vps"
        /\ P.pc = "operate_instances"
        /\ P.k > Len(P.inames)
        /\ proc' = [proc EXCEPT ![p] =
              exit_json(P, WithNames(P, P.json_output, PyList(P.inames)),
                        P.changed)]
        /\ UNCHANGED prov
        /\ UNCHANGED invVars

----------------------------------------------------------------------------
(* gandi_vps: terminate_instances *)

\* a listing that keeps every node that was destroyed
StillListed(nodes_listed, inst, stale) == nodes_listed

\* the nodes the driver lists after destroy_node(inst) returned: without
\* the node, or still with it when the account lists destroyed nodes
AfterDestroy(nodes_listed, inst, stale) ==
    IF stale THEN nodes_listed ELSE WithoutId(nodes_listed, inst.id)

\* the number of calls of a method in a log
CallCount(calls, op) ==
    Cardinality({n \in 1..Len(calls) : calls[n].op = op})

\* inst = get_node(driver, name) for the next name of the list, which is
\* the list the loop appends to
TerminateGet(p) ==
    LET name == proc[p].inames[proc[p].k]
        P == Logged(proc[p], Call("list_nodes", name, TRUE))
        inst == get_by_name(name, prov.nodes)
    IN  /\ proc[p].module = "gandi_vps"
        /\ proc[p].pc = "terminate_instances"
        /\ proc[p].k <= Len(proc[p].inames)
        /\ \/ proc' = [proc EXCEPT ![p] =
                 IF inst = NoEntity
                 THEN [P EXCEPT !.inst = inst, !.k = @ + 1]
                 ELSE [P EXCEPT !.inst = inst, !.pc = "ex_get_node"]]
           \/ proc' = [proc EXCEPT ![p] =
                 ListingCaught(proc[p], "list_nodes", name)]
        /\ UNCHANGED prov
        /\ UNCHANGED invVars

\* inst = driver.ex_get_node(inst.id), outside any try;
\* d = get_instance_info(driver, inst); instance_json_data.append(d)
TerminateRefresh(p) ==
    LET P == proc[p]
        name == P.inst.name
        inst == ex_get_node(prov.known, P.inst.id)
    IN  /\ P.module = "gandi_vps"
        /\ P.params.state = "deleted"
        /\ P.pc = "ex_get_node"
        /\ \/ proc' = [proc EXCEPT ![p] =
                 [Logged(P, Call("ex_get_node", name, TRUE))
                     EXCEPT !.inst = inst,
                            !.instance_json_data =
                                Append(@, get_instance_info(inst)),
                            !.pc = "destroy_node"]]
           \/ proc' = [proc EXCEPT ![p] =
                 Traceback(Logged(P, Call("ex_get_node", name, FALSE)),
                           "GandiException")]
        /\ UNCHANGED prov
        /\ UNCHANGED invVars

\* driver.destroy_node(inst, cascade=True), outside any try;
\* instance_names.append(inst.name); changed = True
TerminateCall(p) ==
    LET P == proc[p]
        name == P.inst.name
    IN  /\ P.module = "gandi_vps"
        /\ P.pc = "destroy_node"
        /\ CallCount(P.calls, "destroy_node") < MaxDestroys
        /\ \/ /\ prov' = [prov EXCEPT
                    !.nodes = AfterDestroy(@, P.inst, prov.stale)]
              /\ proc' = [proc EXCEPT ![p] =
                    [Logged(P, Call("destroy_node", name, TRUE))
                        EXCEPT !.inames = Append(@, name),
                               !.changed = TRUE,
                               !.k = @ + 1,
                               !.pc = "terminate_instances"]]
           \/ /\ proc' = [proc EXCEPT ![p] =
                    Traceback(Logged(P, Call("destroy_node", name, FALSE)),
                              "GandiException")]
              /\ UNCHANGED prov
        /\ UNCHANGED invVars

\* terminated_instance_names of terminate_instances
TerminatedNames(instance_names, instance_json_data) ==
    IF instance_json_data # <<>>
    THEN IF Len(instance_json_data) = 1
         THEN PyStr(instance_names[1])
         ELSE PyList(instance_names)
    ELSE PyNone

\* terminated_instance_json_data of terminate_instances
TerminatedData(instance_json_data) ==
    IF instance_json_data # <<>>
    THEN IF Len(instance_json_data) = 1
         THEN PyDict(instance_json_data[1])
         ELSE PyList(instance_json_data)
    ELSE PyNone

\* terminate_instances after its loop, and what main() prints
TerminateReturn(p) ==
    LET P == proc[p]
    IN  /\ P.module = "gandi_vps"
        /\ P.pc = "terminate_instances"
        /\ P.k > Len(P.inames)
        /\ proc' = [proc EXCEPT ![p] =
              exit_json(P,
                  WithNames(P, Put(P.json_output, "instance_data",
                                   TerminatedData(P.instance_json_data)),
                            TerminatedNames(P.inames, P.instance_json_data)),
                  P.changed)]
        /\ UNCHANGED prov
        /\ UNCHANGED invVars

----------------------------------------------------------------------------
(* The invocations of the resource modules *)

\* the account before the first invocation: the provider has the nodes it
\* lists
Provider(pvlans, nodes_listed, volumes, stale) ==
    [pvlans |-> pvlans, nodes |-> nodes_listed, known |-> nodes_listed,
     ifaces |-> <<>>, volumes |-> volumes,
     next_id |-> Len(pvlans) + Len(nodes_listed) + Len(volumes) + 1,
     stale |-> stale]

Invocation(module, params, provider) ==
    [module |-> module, params |-> params, prov |-> provider]

PvlanLists ==
    {<<>>,
     <<NewPvlan(1, "web", Datacenters[1])>>,
     <<NewPvlan(1, "db", Datacenters[1]), NewPvlan(2, "web", Datacenters[1])>>}

InstanceNames == {"a", "b"}

NodesListed ==
    {<<>>, <<NewNode(1, "a")>>, <<NewNode(1, "b")>>,
     <<NewNode(1, "a"), NewNode(2, "b")>>}

ExtraDisks == {<<>>, <<Disk("data", <<1, 0>>)>>}

VlanInvocations ==
    {Invocation("gandi_vlan", Params("gandi_vlan", state, name, dc),
                Provider(pvlans, <<>>, <<>>, FALSE)) :
        state \in {"created", "deleted", NotGiven},
        name \in {None, "web", NotGiven},
        dc \in {"Bissen", "Mars", None, NotGiven}, pvlans \in PvlanLists}

IfaceInvocations ==
    {Invocation("gandi_iface",
                [Params("gandi_iface", state, NotGiven, dc)
                    EXCEPT !.vlan = vlan, !.ip_version = ip_version],
                Provider(pvlans, <<>>, <<>>, FALSE)) :
        state \in {"created", "deleted", NotGiven},
        dc \in {"Bissen", "Mars", None, NotGiven},
        vlan \in {None, "web"}, ip_version \in {None, "4"},
        pvlans \in PvlanLists}

\* the ways of naming the instances: name, instance_names or both
NamesGiven ==
    {PyNone} \cup {NamesList(names) : names \in SeqsUpTo(InstanceNames,
                                                         MaxNames)}
             \cup {NamesStr(<<"a", "b">>)}

VpsParams(state, name, instance_names, extra_disks) ==
    [Params("gandi_vps", state, name, "Bissen") EXCEPT
        !.instance_names = instance_names, !.extra_disks = extra_disks]

CreateInvocations ==
    {Invocation("gandi_vps", VpsParams("running", name, names, disks),
                Provider(<<>>, nodes_listed, <<>>, FALSE)) :
        name \in {None, "a"}, names \in NamesGiven, disks \in ExtraDisks,
        nodes_listed \in NodesListed}

\* create_instances with a datacenter, an image or a machine type that may
\* not exist; "backup" is a volume of the account
LookupInvocations ==
    {Invocation("gandi_vps",
                [Params("gandi_vps", state, "a", dc) EXCEPT
                    !.image = image, !.machine_type = machine_type],
                Provider(<<>>, <<>>,
                         <<NewVolume(1, Disk("backup", <<1, 0>>), 0)>>,
                         FALSE)) :
        state \in {"running", NotGiven},
        dc \in {"Bissen", "Mars", None, NotGiven},
        image \in {"Debian 8", "backup", "Windows"},
        machine_type \in {"Small instance", "custom", "Huge instance"}}

OperateInvocations ==
    {Invocation("gandi_vps", VpsParams(state, name, names, <<>>),
                Provider(<<>>, nodes_listed, <<>>, FALSE)) :
        state \in {"halted", "started", "rebooted"},
        name \in {None, "a"}, names \in NamesGiven,
        nodes_listed \in NodesListed}

TerminateInvocations ==
    {Invocation("gandi_vps", VpsParams("deleted", name, names, <<>>),
                Provider(<<>>, nodes_listed, <<>>, stale)) :
        name \in {None, "a"}, names \in NamesGiven,
        nodes_listed \in NodesListed, stale \in BOOLEAN}

Invocations ==
    VlanInvocations \cup IfaceInvocations \cup CreateInvocations
    \cup LookupInvocations \cup OperateInvocations \cup TerminateInvocations

\* the inventory script is not run
InventoryIdle ==
    /\ driver = [idle |-> TRUE]
    /\ argv = [idle |-> TRUE]
    /\ args = NoArgs
    /\ pc = "idle"
    /\ nodes = <<>> /\ locations = <<>> /\ ifaces = <<>> /\ vlans = <<>>
    /\ i = 0
    /\ node_vlans = <<>>
    /\ j = 0
    /\ groups = EmptyDict
    /\ meta = InitialMeta
    /\ inventory = EmptyDict
    /\ output = NoOutput
    /\ error = NoError
    /\ run = 1
    /\ prev = NoPrev

\* the same module is invoked with the same parameters by every process
InitInvoking(invocations) ==
    /\ InventoryIdle
    /\ \E inv \in invocations :
          /\ prov = inv.prov
          /\ proc = [p \in Procs |-> NewProc(inv.module, inv.params)]

InitCrud == InitInvoking(Invocations)

\* an invocation starts when the one before it has ended
Turn(p) == \A q \in Procs : q < p => proc[q].pc \in Terminal

\* the invocations one after the other
NextCrud ==
    \/ \E p \in Procs : Turn(p) /\ VlanMain(p)
    \/ \E p \in Procs : Turn(p) /\ CreatePvlanLocation(p)
    \/ \E p \in Procs : Turn(p) /\ CreatePvlanGet(p)
    \/ \E p \in Procs : Turn(p) /\ CreatePvlanCall(p)
    \/ \E p \in Procs : Turn(p) /\ DeletePvlanGet(p)
    \/ \E p \in Procs : Turn(p) /\ DeletePvlanCall(p)
    \/ \E p \in Procs : Turn(p) /\ IfaceMain(p)
    \/ \E p \in Procs : Turn(p) /\ CreateIfaceLocation(p)
    \/ \E p \in Procs : Turn(p) /\ CreateIfaceGet(p)
    \/ \E p \in Procs : Turn(p) /\ CreateIfaceCall(p)
    \/ \E p \in Procs : Turn(p) /\ VpsMain(p)
    \/ \E p \in Procs : Turn(p) /\ CreateInstancesLocation(p)
    \/ \E p \in Procs : Turn(p) /\ CreateInstancesImage(p)
    \/ \E p \in Procs : Turn(p) /\ CreateInstancesVolume(p)
    \/ \E p \in Procs : Turn(p) /\ CreateInstancesSize(p)
    \/ \E p \in Procs : Turn(p) /\ CreateInstancesGet(p)
    \/ \E p \in Procs : Turn(p) /\ CreateInstancesCall(p)
    \/ \E p \in Procs : Turn(p) /\ CreateInstancesDisk(p)
    \/ \E p \in Procs : Turn(p) /\ CreateInstancesAttach(p)
    \/ \E p \in Procs : Turn(p) /\ CreateInstancesRefresh(p)
    \/ \E p \in Procs : Turn(p) /\ CreateInstancesReturn(p)
    \/ \E p \in Procs : Turn(p) /\ OperateGet(p)
    \/ \E p \in Procs : Turn(p) /\ OperateCall(p)
    \/ \E p \in Procs : Turn(p) /\ OperateReturn(p)
    \/ \E p \in Procs : Turn(p) /\ TerminateGet(p)
    \/ \E p \in Procs : Turn(p) /\ TerminateRefresh(p)
    \/ \E p \in Procs : Turn(p) /\ TerminateCall(p)
    \/ \E p \in Procs : Turn(p) /\ TerminateReturn(p)

SpecCrud == InitCrud /\ [][NextCrud]_vars

----------------------------------------------------------------------------
(* Vocabulary of the properties of the resource modules *)

\* the invocation creates private VLANs, or instances
Creating(P) ==
    \/ P.module = "gandi_vlan" /\ P.params.state = "created"
    \/ P.module = "gandi_vps" /\ P.params.state = "running"

CreateOps == {"ex_create_pvlan", "create_node"}

\* the listing in which the invocation looks its names up
ListingOf(P) == IF P.module = "gandi_vlan" THEN prov.pvlans ELSE prov.nodes

\* the names the invocation is asked for
RequestedNames(P) ==
    IF P.module = "gandi_vlan" THEN {P.params.name} ELSE Range(P.inames)

\* the calls a step adds to the log of an invocation
NewCalls(p) ==
    {proc'[p].calls[n] : n \in Len(proc[p].calls) + 1 .. Len(proc'[p].calls)}

\* the calls of the log with one of the methods that returned normally
Succeeded(calls, ops) ==
    {n \in 1..Len(calls) : calls[n].op \in ops /\ calls[n].ok}

\* the calls of the log with one of the methods, however they ended
Issued(calls, ops) == {n \in 1..Len(calls) : calls[n].op \in ops}

\* the number of entities of a listing with a name
Named(entities, name) ==
    Cardinality({n \in 1..Len(entities) : entities[n].name = name})

----------------------------------------------------------------------------
(* C12 *)

\* a step issues a create call only for a name no listed entity has
CreateOnlyAbsent ==
    \A p \in Procs : \A c \in NewCalls(p) :
        c.op \in CreateOps => get_by_name(c.arg, ListingOf(proc[p])) = NoEntity

\* an invocation that ended normally without creating reports changed false
UnchangedWhenNothingCreated ==
    \A p \in Procs :
        (/\ Creating(proc[p])
         /\ proc[p].pc = "exit"
         /\ Succeeded(proc[p].calls, CreateOps) = {})
        => proc[p].result.json.changed = FALSE

\* after two invocations that ended normally, one entity for each name
OneResourceAfterTwoRuns ==
    (\A p \in Procs : Creating(proc[p]) /\ proc[p].pc = "exit")
    => \A name \in RequestedNames(proc[1]) :
           Named(ListingOf(proc[1]), name) = 1

\* C12: invoked one after the other, create_pvlan and create_instances
\* issue no create call for a name that the listing already has, an
\* invocation that created nothing reports changed false, and after the
\* same create ran twice there is exactly one resource of each name.
C12_CreateIdempotent ==
    /\ [](UnchangedWhenNothingCreated /\ OneResourceAfterTwoRuns)
    /\ [][CreateOnlyAbsent]_vars

\* C12 witness: the first invocation created the one instance of two names
\* that was missing and reported changed; the second found both, called
\* create_node for none and reported changed false
C12_Witness ==
    /\ \A p \in Procs : proc[p].module = "gandi_vps" /\ proc[p].pc = "exit"
    /\ proc[1].params.state = "running"
    /\ RequestedNames(proc[1]) = InstanceNames
    /\ Cardinality(Succeeded(proc[1].calls, CreateOps)) = 1
    /\ proc[1].result.json.changed = TRUE
    /\ Issued(proc[2].calls, CreateOps) = {}
    /\ proc[2].result.json.changed = FALSE
    /\ \A name \in InstanceNames : Named(prov.nodes, name) = 1

----------------------------------------------------------------------------
(* C13 *)

\* C13: when gandi_iface was invoked twice, one after the other, with
\* state created and the same parameters, and both invocations ended
\* normally, ex_create_iface was called at most once in all and the second
\* invocation reports changed false.
C13_IfaceCreateOnce ==
    (\A p \in Procs : /\ proc[p].module = "gandi_iface"
                      /\ proc[p].params.state = "created"
                      /\ proc[p].pc = "exit")
    => /\ Cardinality(Issued(proc[1].calls, {"ex_create_iface"}))
          + Cardinality(Issued(proc[2].calls, {"ex_create_iface"})) <= 1
       /\ proc[2].result.json.changed = FALSE

----------------------------------------------------------------------------
(* C14 *)

\* create_pvlan and create_instances invoked by two processes at once
RaceInvocations ==
    {inv \in VlanInvocations : inv.params.state = "created"}
    \cup {Invocation("gandi_vps", VpsParams("running", None,
                                            NamesList(names), disks),
                     Provider(<<>>, nodes_listed, <<>>, FALSE)) :
             names \in SeqsUpTo(InstanceNames, MaxNames), disks \in ExtraDisks,
             nodes_listed \in {<<>>, <<NewNode(1, "a")>>}}
    \cup {inv \in LookupInvocations : /\ inv.params.datacenter = "Bissen"
                                      /\ inv.params.image = "backup"}

InitRace == InitInvoking(RaceInvocations)

\* the steps of the two invocations in any order
NextRace ==
    \/ \E p \in Procs : VlanMain(p)
    \/ \E p \in Procs : CreatePvlanLocation(p)
    \/ \E p \in Procs : CreatePvlanGet(p)
    \/ \E p \in Procs : CreatePvlanCall(p)
    \/ \E p \in Procs : VpsMain(p)
    \/ \E p \in Procs : CreateInstancesLocation(p)
    \/ \E p \in Procs : CreateInstancesImage(p)
    \/ \E p \in Procs : CreateInstancesVolume(p)
    \/ \E p \in Procs : CreateInstancesSize(p)
    \/ \E p \in Procs : CreateInstancesGet(p)
    \/ \E p \in Procs : CreateInstancesCall(p)
    \/ \E p \in Procs : CreateInstancesDisk(p)
    \/ \E p \in Procs : CreateInstancesAttach(p)
    \/ \E p \in Procs : CreateInstancesRefresh(p)
    \/ \E p \in Procs : CreateInstancesReturn(p)

SpecRace == InitRace /\ [][NextRace]_vars

\* an invocation that found the name absent can issue its create call,
\* whatever the other invocation has created since
CreateAfterAbsent ==
    \A p \in Procs :
        /\ proc[p].pc = "ex_create_pvlan" => ENABLED CreatePvlanCall(p)
        /\ proc[p].pc = "create_node" => ENABLED CreateInstancesCall(p)

\* an invocation whose create call returned and that ended normally
\* reports changed true
CreatedIsChanged ==
    \A p \in Procs :
        (/\ Creating(proc[p])
         /\ proc[p].pc = "exit"
         /\ Succeeded(proc[p].calls, CreateOps) # {})
        => proc[p].result.json.changed = TRUE

\* C14: the lookup and the create call are two steps: with two invocations
\* of create_pvlan or create_instances interleaved, an invocation that
\* found the name absent issues its create call even when the other one
\* has created the name in between, and each invocation whose create
\* returned reports changed true.
C14_CheckThenCreate == CreateAfterAbsent /\ CreatedIsChanged

\* C14 witness: both invocations of create_pvlan listed the VLANs before
\* either created, both called ex_create_pvlan for the same name, both
\* report changed true, and the account has two VLANs of that name
C14_Witness ==
    /\ \A p \in Procs :
          /\ proc[p].module = "gandi_vlan"
          /\ proc[p].pc = "exit"
          /\ Cardinality(Succeeded(proc[p].calls, {"ex_create_pvlan"})) = 1
          /\ proc[p].result.json.changed = TRUE
    /\ proc[1].params.name = proc[2].params.name
    /\ Named(prov.pvlans, proc[1].params.name) = 2

----------------------------------------------------------------------------
(* C15 *)

\* the data key of the result of each module
DataKey(module) ==
    CASE module = "gandi_vlan" -> "pvlan_data"
      [] module = "gandi_iface" -> "iface_data"
      [] module = "gandi_vps" -> "instance_data"

\* no call of the driver raised in the invocation
NoProviderError(P) == \A n \in 1..Len(P.calls) : P.calls[n].value

\* C15: an invocation of gandi_vps, gandi_vlan or gandi_iface in which no
\* call of the driver fails does not end in a traceback, and the object an
\* invocation prints when it ends normally has the keys changed (a
\* boolean), state and the data key of its module.
C15_ResultKeys ==
    \A p \in Procs :
        /\ (proc[p].pc = "crashed" => ~NoProviderError(proc[p]))
        /\ proc[p].pc = "exit" =>
              /\ {"changed", "state", DataKey(proc[p].module)}
                  \subseteq DOMAIN proc[p].result.json
              /\ proc[p].result.json.changed \in BOOLEAN

----------------------------------------------------------------------------
(* C16 *)

\* gandi_vps is given neither name nor instance_names, gandi_vlan no name
MissingArgument(P) ==
    \/ P.module = "gandi_vlan" /\ P.params.name = None
    \/ /\ P.module = "gandi_vps"
       /\ P.params.name = None
       /\ P.params.instance_names \in {PyNone, NamesList(<<>>)}

\* past main(), such an invocation has failed with changed false and has
\* called no method of the driver
FailedBeforeAnyCall ==
    \A p \in Procs :
        (MissingArgument(proc[p]) /\ proc[p].pc # "main")
        => /\ proc[p].pc = "failed"
           /\ proc[p].result.kind = "fail_json"
           /\ proc[p].result.json.failed
           /\ proc[p].result.json.changed = FALSE
           /\ proc[p].calls = <<>>

\* no step of such invocations changes the account
AccountKept ==
    (\A p \in Procs : MissingArgument(proc[p])) => prov' = prov

\* C16: gandi_vps without name and instance_names, and gandi_vlan without
\* name, end in a failed result with changed false before any call of the
\* driver, and the account stays as it was.
C16_MissingArgumentFails == [](FailedBeforeAnyCall) /\ [][AccountKept]_vars

\* C16 witness: gandi_vps was asked to delete without any name, on an
\* account that has nodes; both invocations failed in main() and the nodes
\* are still listed
C16_Witness ==
    /\ \A p \in Procs :
          /\ proc[p].module = "gandi_vps"
          /\ proc[p].params.state = "deleted"
          /\ MissingArgument(proc[p])
          /\ proc[p].pc = "failed"
          /\ proc[p].result.json.changed = FALSE
          /\ proc[p].calls = <<>>
    /\ Len(prov.nodes) = 2

----------------------------------------------------------------------------
(* C17 *)

\* the calls that are made under try/except GandiException
GuardedOps == {"ex_create_pvlan", "ex_create_iface", "create_node",
               "start_node", "stop_node", "reboot_node"}

\* a guarded call that raised is the last call of its invocation, which
\* ended in fail_json
ErrorIsTerminal ==
    \A p \in Procs : \A n \in 1..Len(proc[p].calls) :
        (proc[p].calls[n].op \in GuardedOps /\ ~proc[p].calls[n].ok)
        => /\ n = Len(proc[p].calls)
           /\ proc[p].pc = "failed"

\* in the log of an invocation no method that changes the account is
\* called twice for the same name
OncePerName ==
    \A p \in Procs : \A m, n \in 1..Len(proc[p].calls) :
        (/\ proc[p].calls[m].op \in MutatingOps
         /\ proc[p].calls[m].op = proc[p].calls[n].op
         /\ proc[p].calls[m].arg = proc[p].calls[n].arg)
        => m = n

\* C17: a create, start, stop or reboot call that raises GandiException
\* ends the invocation in failure with no further call of the driver, and
\* within an invocation each method that changes the account is called at
\* most once for any name.
C17_NoRetry == ErrorIsTerminal /\ OncePerName

----------------------------------------------------------------------------
(* C18 *)

\* the names of the nodes destroy_node was called on and returned, in order
RECURSIVE DestroyedNames(_)
DestroyedNames(calls) ==
    IF calls = <<>> THEN <<>>
    ELSE LET c == Head(calls)
         IN  (IF c.op = "destroy_node" /\ c.ok THEN <<c.arg>> ELSE <<>>)
             \o DestroyedNames(Tail(calls))

\* a value is the one name, the list of the names, or None for no name
IsNamesValue(value, names) ==
    CASE Len(names) = 0 -> value.type = "NoneType"
      [] Len(names) = 1 -> value.type = "str" /\ value.value = names[1]
      [] OTHER -> value.type = "list" /\ value.items = names

\* C18: when terminate_instances has returned, the names it returns are
\* the names of the nodes it called destroy_node on: the one name when
\* there is one, None when there is none, the list of them otherwise.
C18_TerminatedNames ==
    \A p \in Procs :
        (/\ proc[p].module = "gandi_vps"
         /\ proc[p].params.state = "deleted"
         /\ proc[p].pc = "exit")
        => IsNamesValue(TerminatedNames(proc[p].inames,
                                        proc[p].instance_json_data),
                        DestroyedNames(proc[p].calls))

----------------------------------------------------------------------------
(* C19 *)

InitTerminate == InitInvoking(TerminateInvocations)

\* gandi_vps with state deleted, invoked twice, one after the other
NextTerminate ==
    \/ \E p \in Procs : Turn(p) /\ VpsMain(p)
    \/ \E p \in Procs : Turn(p) /\ TerminateGet(p)
    \/ \E p \in Procs : Turn(p) /\ TerminateRefresh(p)
    \/ \E p \in Procs : Turn(p) /\ TerminateCall(p)
    \/ \E p \in Procs : Turn(p) /\ TerminateReturn(p)

\* a process that can take a step takes one: the interpreter runs on
SpecTerminate ==
    InitTerminate /\ [][NextTerminate]_vars /\ WF_vars(NextTerminate)

\* the nodes the account had before the first invocation: identifiers are
\* handed out in sequence and these invocations create nothing
ExistingNodes == prov.next_id - 1

\* when destroyed nodes leave the listing, an invocation calls
\* destroy_node at most as often as there were nodes
DestroysBounded ==
    ~prov.stale =>
        \A p \in Procs :
            Cardinality(Issued(proc[p].calls, {"destroy_node"}))
                <= ExistingNodes

\* when a destroyed node stays listed, an invocation that destroyed one
\* has another name to visit for as long as destroy_node returns, and
\* never leaves the loop normally
StaleNeverReturns ==
    prov.stale =>
        \A p \in Procs :
            Succeeded(proc[p].calls, {"destroy_node"}) # {}
                => /\ proc[p].pc \in {"terminate_instances", "ex_get_node",
                                      "destroy_node", "crashed", "failed"}
                   /\ proc[p].k <= Len(proc[p].inames)

\* every invocation has ended
AllEnded == \A p \in Procs : proc[p].pc \in Terminal

\* C19: provided destroy_node removes the node from what list_nodes
\* returns later, terminate_instances ends for every list of names and
\* every set of nodes, after at most as many destroy_node calls as there
\* were nodes, although its loop appends to the list it iterates; when a
\* destroyed node is still listed the loop never ends.
C19_TerminateEnds ==
    /\ [](DestroysBounded /\ StaleNeverReturns)
    /\ (~prov.stale ~> AllEnded)

\* C19 witness: both requested nodes were destroyed and left the listing;
\* the loop then went over the two names it had appended and ended
C19_Witness ==
    /\ ~prov.stale
    /\ proc[1].module = "gandi_vps"
    /\ proc[1].params.state = "deleted"
    /\ proc[1].pc = "exit"
    /\ Cardinality(Succeeded(proc[1].calls, {"destroy_node"})) = 2
    /\ Len(proc[1].inames) = Len(Inames(proc[1].params)) + 2
    /\ proc[1].k = Len(proc[1].inames) + 1
    /\ prov.nodes = <<>>

----------------------------------------------------------------------------
(* C20 *)

\* C20: in an invocation of create_instances, create_volume and
\* attach_volume are called only for an instance that a create_node call
\* of the same invocation made before; an instance that was listed already
\* gets no disk.
C20_DisksOnlyForCreated ==
    \A p \in Procs : \A n \in 1..Len(proc[p].calls) :
        proc[p].calls[n].op \in {"create_volume", "attach_volume"}
        => \E m \in 1..(n - 1) :
               /\ proc[p].calls[m].op = "create_node"
               /\ proc[p].calls[m].ok
               /\ proc[p].calls[m].arg = proc[p].calls[n].arg

----------------------------------------------------------------------------
(* C21 *)

\* the invocation printed a result whose changed is true
ReportedChanged(P) ==
    /\ P.result.kind \in {"exit", "fail_json"}
    /\ "changed" \in DOMAIN P.result.json
    /\ P.result.json.changed = TRUE

\* a call that changes the account returned, and returned a true value
SuccessfulMutation(P) ==
    \E n \in 1..Len(P.calls) :
        /\ P.calls[n].op \in MutatingOps
        /\ P.calls[n].ok
        /\ P.calls[n].value

\* the invocation deletes, stops, starts or reboots
DeletingOrOperating(P) ==
    \/ P.module = "gandi_vlan" /\ P.params.state = "deleted"
    \/ P.module = "gandi_vps" /\ P.params.state # "running"

\* an invocation that ended normally reports changed exactly when one of
\* its calls changed the account
ChangedAtExit ==
    \A p \in Procs :
        proc[p].pc = "exit"
        => (proc[p].result.json.changed <=> SuccessfulMutation(proc[p]))

\* names that match nothing are passed over: an invocation that had
\* nothing to delete or operate on, and whose lookups all returned, ends
\* normally with changed false
AbsentNamesSkipped ==
    \A p \in Procs :
        (/\ DeletingOrOperating(proc[p])
         /\ ~MissingArgument(proc[p])
         /\ proc[p].pc \in Terminal
         /\ NoProviderError(proc[p])
         /\ Issued(proc[p].calls, MutatingOps) = {})
        => /\ proc[p].pc = "exit"
           /\ proc[p].result.json.changed = FALSE

\* C21: the result of an invocation that deletes, stops, starts or reboots
\* and has ended reports changed true if and only if one of its calls that
\* change the account succeeded, and an invocation all of whose names match
\* no resource ends without error and with changed false.
C21_ChangedIffMutated ==
    /\ AbsentNamesSkipped
    /\ \A p \in Procs :
           (DeletingOrOperating(proc[p]) /\ proc[p].pc \in Terminal)
           => (ReportedChanged(proc[p]) <=> SuccessfulMutation(proc[p]))

====
